---- MODULE Spec2Model ----
(***************************************************************************)
(* Model of the csv_to_db ingestion pipeline (src/main.py) and of the      *)
(* query helpers (src/fetch_sensor_data.py, src/libs/fetch_sensor_data.py).*)
(*                                                                         *)
(* The persistent state is the DuckDB file (tables param_master,           *)
(* parameter_id_master, processed_files), the partitioned parquet          *)
(* directory and the input files on disk.  One call of process_csv_files   *)
(* is a run; the body of its for-loop is one action.                       *)
(***************************************************************************)
EXTENDS Integers, Sequences, FiniteSets, TLC

VARIABLES
    fs,                   \* input files on disk: name -> [mtime, content]
    clock,                \* datetime.now()
    ledger,               \* rows of table processed_files
    param_master,         \* rows of table param_master
    parameter_id_master,  \* rows of table parameter_id_master
    store,                \* parquet files: path -> file
    running,              \* a process_csv_files call is in its loop
    remaining,            \* files of file_paths the loop has yet to take
    force,                \* argument of the running call
    scope,                \* plant_name, machine_no, data_source of the call
    outcome,              \* what the loop did with the file it took last
    lastError,            \* exception that ended the last call, if any
    ingested,             \* history: file versions that reached "processed"
    tasks,                \* concurrent register_header_to_duckdb calls
    query,                \* a load_dataset call: its arguments and its result
    reading,              \* a read_pi_file call: the file and what it returned
    scan                  \* a range query: its arguments and what it returned

pipeVars == <<fs, clock, ledger, param_master, parameter_id_master, store,
              running, remaining, force, scope, outcome, lastError,
              ingested>>

otherVars == <<tasks, query, reading, scan>>

vars == <<pipeVars, otherVars>>

(***************************************************************************)
(* Bounds of the model.                                                    *)
(***************************************************************************)
MaxClock == 4
MaxMtime == 2
MaxFiles == 2

(***************************************************************************)
(* Small helpers.                                                          *)
(***************************************************************************)
Range(s) == {s[i] : i \in 1..Len(s)}

Min(a, b) == IF a <= b THEN a ELSE b

Tail1(s) == IF Len(s) = 0 THEN <<>> ELSE Tail(s)

HasDuplicates(s) == \E i, j \in 1..Len(s) : i # j /\ s[i] = s[j]

\* zip(a, b, c): as long as the shortest of the three
Zip3(a, b, c) ==
    [i \in 1..Min(Len(a), Min(Len(b), Len(c))) |->
        [param_id |-> a[i], param_name |-> b[i], unit |-> c[i]]]

(***************************************************************************)
(* Inputs: file names, scopes and file contents.                           *)
(***************************************************************************)
FileNames == {"a.csv", "b.csv"}

Scopes ==
    {[plant_name |-> "plant1", machine_no |-> "machine1", data_source |-> "pi"],
     [plant_name |-> "plant1", machine_no |-> "machine2", data_source |-> "pi"]}

\* A PI export: three header lines, then data lines.  A data line is
\* <<Datetime, cell, ...>>; a Datetime is <<year, month, day>>.  dtypes are
\* the types polars infers for the data columns.  An Int64 cell n is the
\* integer n, a Float64 cell n is n tenths.
Contents ==
    [K1 |-> [lines  |-> << <<"ts", "P1">>, <<"name", "n1">>, <<"unit", "u">> >>,
             dtypes |-> <<"Datetime", "Int64">>,
             data   |-> { << <<2023, 1, 15>>, 1 >> }],
     K2 |-> [lines  |-> << <<"ts", "P1", "P2">>, <<"name", "n1b", "n2">>,
                           <<"unit", "u", "u">> >>,
             dtypes |-> <<"Datetime", "Float64", "Int64">>,
             data   |-> { << <<2023, 1, 20>>, 15, 2 >>,
                          << <<2023, 2, 1>>, 25, 3 >> }],
     K3 |-> [lines  |-> << <<"ts", "P2", "P2">>, <<"name", "n2", "n2d">>,
                           <<"unit", "u", "u">> >>,
             dtypes |-> <<"Datetime", "Int64", "Int64">>,
             data   |-> { << <<2023, 2, 3>>, 4, 4 >> }]]

ContentIds == DOMAIN Contents

\* what the input directory holds at the start
InitialContent == [f \in FileNames |-> IF f = "a.csv" THEN "K1" ELSE "K2"]

\* the export that replaces an export when its file is rewritten
NextExport == [K1 |-> "K2", K2 |-> "K3", K3 |-> "K1"]

\* the scope of the __main__ block
DefaultScope ==
    [plant_name |-> "plant1", machine_no |-> "machine1", data_source |-> "pi"]

READERS == {"pi"}

\* str.lower() on the data-source identifiers in use
Lower(s) == CASE s = "PI" -> "pi" [] OTHER -> s

(***************************************************************************)
(* read_pi_file / read_file_by_source                                      *)
(***************************************************************************)
\* polars dt.year() is Int32, dt.month() is Int8
read_pi_file(c) ==
    LET header    == c.lines
        param_ids == [header[1] EXCEPT ![1] = "Datetime"]
        ids   == Tail1(param_ids)
        names == Tail1(header[2])
        units == Tail1(header[3])
    IN  [ok        |-> TRUE,
         error     |-> "none",
         lf        |-> [columns |-> param_ids \o <<"year", "month">>,
                        dtypes  |-> c.dtypes \o <<"Int32", "Int8">>,
                        rows    |-> {r \o <<r[1][1], r[1][2]>> : r \in c.data}],
         header_lf |-> Zip3(ids, names, units)]

read_file_by_source(c, data_source) ==
    IF Lower(data_source) \in READERS
    THEN read_pi_file(c)
    ELSE [ok |-> FALSE, error |-> "ValueError", lf |-> <<>>, header_lf |-> <<>>]

(***************************************************************************)
(* Parameter catalog: register_header_to_duckdb, register_param_id_master  *)
(***************************************************************************)
CatalogKey(r) == <<r.param_id, r.plant_name, r.machine_no, r.data_source>>

\* con.executemany("INSERT INTO t VALUES (...)", rows): one INSERT per row,
\* each committed on its own; a row whose primary key is already in the
\* table raises and the rows after it are not inserted.
RECURSIVE executemany_insert(_, _)
executemany_insert(table, rows) ==
    IF rows = <<>> THEN [table |-> table, ok |-> TRUE]
    ELSE IF \E t \in table : CatalogKey(t) = CatalogKey(Head(rows))
         THEN [table |-> table, ok |-> FALSE]
         ELSE executemany_insert(table \cup {Head(rows)}, Tail(rows))

\* SELECT param_id FROM t WHERE plant_name = ? AND machine_no = ? AND data_source = ?
existing_ids(table, sc) ==
    {t.param_id : t \in {u \in table : /\ u.plant_name = sc.plant_name
                                       /\ u.machine_no = sc.machine_no
                                       /\ u.data_source = sc.data_source}}

\* header_df[~header_df["param_id"].isin(existing)]
new_rows(header_df, existing) ==
    SelectSeq(header_df, LAMBDA r : r.param_id \notin existing)

\* header_df of register_header_to_duckdb: the header with the scope columns
header_df_param_master(header_lf, sc) ==
    [i \in 1..Len(header_lf) |->
        [param_id    |-> header_lf[i].param_id,
         param_name  |-> header_lf[i].param_name,
         unit        |-> header_lf[i].unit,
         plant_name  |-> sc.plant_name,
         machine_no  |-> sc.machine_no,
         data_source |-> sc.data_source]]

\* header_df of register_param_id_master: both display names start as the
\* param_name of the file
header_df_id_master(header_lf, sc, now) ==
    [i \in 1..Len(header_lf) |->
        [param_id      |-> header_lf[i].param_id,
         param_name_en |-> header_lf[i].param_name,
         param_name_ja |-> header_lf[i].param_name,
         plant_name    |-> sc.plant_name,
         machine_no    |-> sc.machine_no,
         data_source   |-> sc.data_source,
         insert_date   |-> now]]

register_param_id_master(header_lf, table, sc, now) ==
    executemany_insert(table, new_rows(header_df_id_master(header_lf, sc, now),
                                       existing_ids(table, sc)))

\* Returns both tables and whether the call returned without an exception.
register_header_to_duckdb(header_lf, pm, pim, sc, now) ==
    LET r1 == executemany_insert(pm, new_rows(header_df_param_master(header_lf, sc),
                                              existing_ids(pm, sc)))
        r2 == register_param_id_master(header_lf, pim, sc, now)
    IN  IF ~r1.ok
        THEN [pm |-> r1.table, pim |-> pim, ok |-> FALSE]
        ELSE [pm |-> r1.table, pim |-> r2.table, ok |-> r2.ok]

(***************************************************************************)
(* Partitioned store writer: write_parquet_file                            *)
(***************************************************************************)
NumericTypes == {"Int64", "Float64"}

PartitionColumns == {"plant_name", "machine_no", "year", "month"}

\* cs.numeric().exclude(["year", "month"]).cast(pl.Float64)
IsCast(lf, i) ==
    lf.dtypes[i] \in NumericTypes \ {"Float64"} /\ lf.columns[i] \notin {"year", "month"}

\* the frame as it is, with no cast
normalize_schema_no_cast(lf) == lf

\* an Int64 cell n becomes the Float64 cell n.0, which is 10 * n tenths
normalize_schema(lf) ==
    [columns |-> lf.columns,
     dtypes  |-> [i \in 1..Len(lf.columns) |->
                    IF IsCast(lf, i) THEN "Float64" ELSE lf.dtypes[i]],
     rows    |-> {[i \in 1..Len(lf.columns) |->
                    IF IsCast(lf, i) THEN 10 * r[i] ELSE r[i]] : r \in lf.rows}]

\* position of the first column named c
ColumnIndex(lf, c) == CHOOSE i \in 1..Len(lf.columns) : lf.columns[i] = c

\* default basename_template "part-{i}.parquet", i counted from 0 in each
\* directory of one write_dataset call; one table gives one file per directory
Basename == "part-0.parquet"

\* ds.write_dataset(tbl, partitioning = [plant_name, machine_no, year, month],
\*                  existing_data_behavior = "overwrite_or_ignore"):
\* a file of the same path is overwritten, other files are left alone.
write_dataset(st, tbl, sc) ==
    LET yi == ColumnIndex(tbl, "year")
        mi == ColumnIndex(tbl, "month")
        n  == Len(tbl.columns)
        keep == {i \in 1..n : tbl.columns[i] \notin PartitionColumns}
        dirs == {<<sc.plant_name, sc.machine_no, r[yi], r[mi]>> : r \in tbl.rows}
        new  == {d \o <<Basename>> : d \in dirs}
        FileAt(p) ==
            [columns |-> [i \in 1..n - 2 |-> tbl.columns[i]],
             dtypes  |-> [i \in 1..n - 2 |-> tbl.dtypes[i]],
             keys    |-> [year |-> tbl.dtypes[yi], month |-> tbl.dtypes[mi]],
             rows    |-> {[i \in 1..n - 2 |-> r[i]] :
                            r \in {q \in tbl.rows : q[yi] = p[3] /\ q[mi] = p[4]}}]
    IN  [p \in DOMAIN st \cup new |-> IF p \in new THEN FileAt(p) ELSE st[p]]

\* A frame cannot hold two columns of one name: collect() raises.
write_parquet_file(lf, st, sc) ==
    IF HasDuplicates(lf.columns)
    THEN [ok |-> FALSE, error |-> "DuplicateError", store |-> st,
          row_count |-> 0, column_count |-> 0]
    ELSE [ok |-> TRUE, error |-> "none",
          store |-> write_dataset(st, normalize_schema(lf), sc),
          row_count |-> Cardinality(lf.rows),
          column_count |-> Len(lf.columns) + 2]

(***************************************************************************)
(* Range query: load_sensor_data (src/fetch_sensor_data.py)                *)
(***************************************************************************)
\* the parquet files of a plant/machine
FilesOf(st, plant, machine) == {p \in DOMAIN st : p[1] = plant /\ p[2] = machine}

\* dtype of the column c of the file f, "absent" when f has no such column
TypeIn(f, c) ==
    IF \E i \in 1..Len(f.columns) : f.columns[i] = c
    THEN f.dtypes[CHOOSE i \in 1..Len(f.columns) : f.columns[i] = c]
    ELSE "absent"

\* a Float64 cell (in tenths) that is no whole number
Fractional(v) == v % 10 # 0

\* dataset.to_table(): the dataset takes its schema from one of its files and
\* casts the others to it.  An Int64 column of the schema cannot take a
\* Float64 column that holds a fractional value: ArrowInvalid.
ArrowInvalid(st, plant, machine) ==
    \E p, q \in FilesOf(st, plant, machine) :
       \E i \in 1..Len(st[q].columns) :
          /\ TypeIn(st[p], st[q].columns[i]) = "Int64"
          /\ st[q].dtypes[i] = "Float64"
          /\ \E r \in st[q].rows : Fractional(r[i])

\* Promote integer columns to Float64, excluding partition columns.
promote_integers(columns, dtypes) ==
    [i \in 1..Len(columns) |->
        IF dtypes[i] = "Int64" /\ columns[i] \notin {"year", "month"}
        THEN "Float64" ELSE dtypes[i]]

\* dtype of the column c in the table load_sensor_data returns for a
\* plant/machine, for each file the dataset may take its schema from
ResultTypes(st, plant, machine, c) ==
    {TypeIn([columns |-> st[p].columns,
             dtypes  |-> promote_integers(st[p].columns, st[p].dtypes)], c) :
        p \in {q \in FilesOf(st, plant, machine) : TypeIn(st[q], c) # "absent"}}

(***************************************************************************)
(* Processing ledger: is_processed, mark_processed                         *)
(***************************************************************************)
LedgerKey(r) ==
    <<r.file_name, r.file_mtime, r.plant_name, r.machine_no, r.data_source>>

\* file_path.stat().st_mtime, read when the ledger is consulted
st_mtime(files, fp) == files[fp].mtime

is_processed_without_mtime(fp, table, files, sc) ==
    \E r \in table : /\ r.file_name = fp
                     /\ r.plant_name = sc.plant_name
                     /\ r.machine_no = sc.machine_no
                     /\ r.data_source = sc.data_source

\* SELECT 1 FROM processed_files WHERE file_name = ? AND file_mtime = ?
\*   AND plant_name = ? AND machine_no = ? AND data_source = ?
is_processed(fp, table, files, sc) ==
    \E r \in table : /\ r.file_name = fp
                     /\ r.file_mtime = st_mtime(files, fp)
                     /\ r.plant_name = sc.plant_name
                     /\ r.machine_no = sc.machine_no
                     /\ r.data_source = sc.data_source

\* INSERT OR REPLACE INTO t VALUES (...): a row of the same primary key is
\* replaced, so the statement never violates the key.
insert_or_replace(table, row) ==
    [table |-> {r \in table : LedgerKey(r) # LedgerKey(row)} \cup {row}, ok |-> TRUE]

\* A plain INSERT INTO t VALUES (...) raises on a row of the same primary key.
insert_plain(table, row) ==
    IF \E r \in table : LedgerKey(r) = LedgerKey(row)
    THEN [table |-> table, ok |-> FALSE]
    ELSE [table |-> table \cup {row}, ok |-> TRUE]

LedgerRow(fp, files, sc, now) ==
    [file_name    |-> fp,
     file_mtime   |-> st_mtime(files, fp),
     plant_name   |-> sc.plant_name,
     machine_no   |-> sc.machine_no,
     data_source  |-> sc.data_source,
     processed_at |-> now]

mark_processed_plain_insert(fp, table, files, sc, now) ==
    insert_plain(table, LedgerRow(fp, files, sc, now))

mark_processed_swapped_columns(fp, table, files, sc, now) ==
    insert_or_replace(table, [LedgerRow(fp, files, sc, now) EXCEPT
                                 !.file_mtime = now, !.processed_at = st_mtime(files, fp)])

mark_processed(fp, table, files, sc, now) ==
    insert_or_replace(table, LedgerRow(fp, files, sc, now))

(***************************************************************************)
(* Ingestion pipeline: process_csv_files                                   *)
(***************************************************************************)
NoError == [at |-> "none", kind |-> "none"]

\* no register call is in flight, no query was made
NoTasks == <<>>

NoQuery == [existing |-> <<>>, selected_columns |-> <<>>, done |-> FALSE,
            error |-> "none", columns |-> <<>>]

\* no file is being read on its own, no range query was made
NoReading == [lines |-> <<>>, done |-> FALSE, error |-> "none", header_lf |-> <<>>]

NoScan == [done |-> FALSE]

\* Steps of the loop body that an I/O error of the environment (unreadable
\* file, locked database, full disk) can end before they change anything.
Faults == {"none", "read", "register", "write", "mark"}

Init ==
    /\ fs = [f \in FileNames |-> [mtime |-> 1, content |-> InitialContent[f]]]
    /\ clock = 0
    /\ ledger = {}
    /\ param_master = {}
    /\ parameter_id_master = {}
    /\ store = <<>>
    /\ running = FALSE
    /\ remaining = 0
    /\ force = FALSE
    /\ scope = DefaultScope
    /\ outcome = "none"
    /\ lastError = NoError
    /\ ingested = {}
    /\ tasks = NoTasks
    /\ query = NoQuery
    /\ reading = NoReading
    /\ scan = NoScan

\* What the last pass of the loop reported is not kept.
Forget ==
    /\ outcome' = "none"
    /\ lastError' = NoError

\* The environment: a file is replaced by the next export of its series.
Touch(f) ==
    /\ ~running
    /\ fs[f].mtime < MaxMtime
    /\ fs' = [fs EXCEPT ![f] = [mtime |-> fs[f].mtime + 1,
                                 content |-> NextExport[fs[f].content]]]
    /\ Forget
    /\ UNCHANGED <<clock, ledger, param_master, parameter_id_master, store, running,
                   remaining, force, scope, ingested, otherVars>>

\* process_csv_files(file_paths, ..., force = fo) is called with n files.
\* The files of the list are drawn one by one as the loop takes them.
Start(n, fo, sc) ==
    /\ ~running
    /\ running' = TRUE
    /\ remaining' = n
    /\ force' = fo
    /\ scope' = sc
    /\ Forget
    /\ UNCHANGED <<fs, clock, ledger, param_master, parameter_id_master, store, ingested,
                   otherVars>>

\* The call is over: its arguments and its loop position are gone.
Return ==
    /\ running' = FALSE
    /\ remaining' = 0
    /\ force' = FALSE
    /\ scope' = DefaultScope

\* An exception leaves the loop and the call: nothing in process_csv_files
\* catches it, and mark_processed, the last statement of the body, is not
\* reached for the file fp.
RaiseAfterMark(fp, at, kind) ==
    /\ Return
    /\ outcome' = "Failed"
    /\ lastError' = [at |-> at, kind |-> kind]
    /\ ledger' = mark_processed(fp, ledger, fs, scope, clock + 1).table
    /\ UNCHANGED ingested

Raise(fp, at, kind) ==
    /\ Return
    /\ outcome' = "Failed"
    /\ lastError' = [at |-> at, kind |-> kind]
    /\ UNCHANGED <<ledger, ingested>>

\* The loop goes on with the next file, or the call returns.
Continue(res) ==
    /\ IF remaining > 1
       THEN /\ remaining' = remaining - 1
            /\ UNCHANGED <<running, force, scope>>
       ELSE Return
    /\ outcome' = res
    /\ lastError' = NoError

\* One pass of the for-loop, over the file fp.  datetime.now() is read by
\* register_param_id_master and again by mark_processed, and moves on
\* between two reads.
LoopBody(fp, fault) ==
    /\ running
    /\ remaining > 0
    /\ LET rd  == read_file_by_source(Contents[fs[fp].content], scope.data_source)
           reg == register_header_to_duckdb(rd.header_lf, param_master,
                                            parameter_id_master, scope, clock + 1)
           wr  == write_parquet_file(rd.lf, store, scope)
           mk  == mark_processed(fp, ledger, fs, scope, clock + 2)
       IN  IF ~force /\ is_processed(fp, ledger, fs, scope)
           THEN /\ Continue("Skipped")
                /\ UNCHANGED <<clock, ledger, param_master, parameter_id_master,
                               store, ingested>>
           ELSE IF fault = "read" \/ ~rd.ok
           THEN /\ Raise(fp, "read", IF fault = "read" THEN "IOError" ELSE rd.error)
                /\ UNCHANGED <<clock, param_master, parameter_id_master, store>>
           ELSE IF fault = "register"
           THEN /\ Raise(fp, "register", "IOError")
                /\ UNCHANGED <<clock, param_master, parameter_id_master, store>>
           ELSE /\ clock + 2 <= MaxClock
                /\ param_master' = reg.pm
                /\ parameter_id_master' = reg.pim
                /\ IF ~reg.ok
                   THEN /\ Raise(fp, "register", "ConstraintException")
                        /\ clock' = clock + 1
                        /\ UNCHANGED store
                   ELSE IF fault = "write" \/ ~wr.ok
                   THEN /\ Raise(fp, "write", IF fault = "write" THEN "IOError"
                                                                  ELSE wr.error)
                        /\ clock' = clock + 1
                        /\ UNCHANGED store
                   ELSE IF fault = "mark"
                   THEN /\ Raise(fp, "mark", "IOError")
                        /\ clock' = clock + 1
                        /\ store' = wr.store
                   ELSE IF ~mk.ok
                   THEN /\ Raise(fp, "mark", "ConstraintException")
                        /\ clock' = clock + 2
                        /\ store' = wr.store
                   ELSE /\ Continue("Ingested")
                        /\ clock' = clock + 2
                        /\ store' = wr.store
                        /\ ledger' = mk.table
                        /\ ingested' = ingested \cup {<<fp, st_mtime(fs, fp), scope>>}
    /\ UNCHANGED <<fs, otherVars>>

Next ==
    \/ \E f \in FileNames : Touch(f)
    \/ \E n \in 1..MaxFiles, fo \in BOOLEAN, sc \in Scopes : Start(n, fo, sc)
    \/ \E fp \in FileNames, fault \in Faults : LoopBody(fp, fault)

Spec == Init /\ [][Next]_vars

(***************************************************************************)
(* Properties of the ingestion pipeline                                    *)
(***************************************************************************)
\* the loop takes the file fp in this step
Took(fp) == \E fault \in Faults : LoopBody(fp, fault)

\* ledger rows of the version of fp now on disk, for the scope sc
RecordsOf(table, fp, files, sc) ==
    {r \in table : /\ r.file_name = fp
                   /\ r.file_mtime = files[fp].mtime
                   /\ r.plant_name = sc.plant_name
                   /\ r.machine_no = sc.machine_no
                   /\ r.data_source = sc.data_source}

\* C1: a file that was ingested for a scope and whose name and modification
\* time are unchanged is skipped by a run without force: nothing is
\* registered, written or marked, and the ledger still holds exactly one
\* record for it.
C1_IdempotentWithoutForce ==
    [][\A fp \in FileNames :
          (Took(fp) /\ ~force /\ <<fp, fs[fp].mtime, scope>> \in ingested)
          => /\ outcome' = "Skipped"
             /\ UNCHANGED <<ledger, param_master, parameter_id_master, store, clock>>
             /\ Cardinality(RecordsOf(ledger', fp, fs, scope)) = 1]_vars

\* a file was ingested and a later run without force has skipped it
C1_Witness ==
    /\ outcome = "Skipped"
    /\ ledger # {}
    /\ DOMAIN store # {}

\* C3: a failure of one file does not end the call: the call ends only with
\* the last file of the list, so every later file reaches an outcome.
C3_BatchFailureIsolation ==
    [][(running /\ ~running') => remaining = 1]_vars

\* C4 as stated: when a step of a file fails, the ledger has no record for
\* the file version.
C4_FailedFileHasNoRecord ==
    [][\A fp \in FileNames :
          (Took(fp) /\ outcome' = "Failed")
          => RecordsOf(ledger', fp, fs, scope) = {}]_vars

\* C4 as amended: the ledger is written only by a pass of the loop in which
\* read, register and write completed, and only for the file of that pass; a
\* pass that fails leaves the ledger exactly as it was, so a file version
\* that had no record has none and a run without force does not skip it.
C4_FailedFileNotMarked ==
    [][/\ (ledger' # ledger) => \E fp \in FileNames : Took(fp)
       /\ \A fp \in FileNames :
            Took(fp) =>
              LET rd  == read_file_by_source(Contents[fs[fp].content], scope.data_source)
                  reg == register_header_to_duckdb(rd.header_lf, param_master,
                                parameter_id_master, scope, clock + 1)
                  wr  == write_parquet_file(rd.lf, store, scope)
              IN  /\ (ledger' # ledger) =>
                        /\ outcome' = "Ingested"
                        /\ rd.ok /\ reg.ok /\ wr.ok
                        /\ param_master' = reg.pm
                        /\ parameter_id_master' = reg.pim
                        /\ store' = wr.store
                        /\ \A r \in ledger' \ ledger :
                              r \in RecordsOf(ledger', fp, fs, scope)
                  /\ (outcome' = "Failed") => ledger' = ledger
                  /\ (~force /\ RecordsOf(ledger, fp, fs, scope) = {})
                        => outcome' # "Skipped"]_vars

\* a pass failed after the store was written and the file has no record
C4_Witness ==
    /\ outcome = "Failed"
    /\ lastError.at = "mark"
    /\ DOMAIN store # {}
    /\ ledger = {}

C7_FileVersionIdentity ==
    [][\A fp \in FileNames :
          Took(fp) =>
            /\ ~force =>
                 ((outcome' = "Skipped") <=>
                    \E r \in ledger : /\ r.file_name = fp
                                      /\ r.file_mtime = fs[fp].mtime
                                      /\ r.plant_name = scope.plant_name
                                      /\ r.machine_no = scope.machine_no
                                      /\ r.data_source = scope.data_source)
            /\ (outcome' = "Ingested") =>
                 /\ \A r \in ledger : LedgerKey(r) # <<fp, fs[fp].mtime, scope.plant_name,
                                           scope.machine_no, scope.data_source>>
                                      => r \in ledger'
                 /\ RecordsOf(ledger', fp, fs, scope) # {}]_vars

\* a file was ingested, changed on disk and ingested again: two records
C7_Witness ==
    \E r1, r2 \in ledger :
       /\ r1.file_name = r2.file_name
       /\ r1.machine_no = r2.machine_no
       /\ r1.file_mtime < r2.file_mtime

(***************************************************************************)
(* Properties of the partitioned store                                     *)
(***************************************************************************)
\* the partition directory of a parquet file
DirOf(p) == <<p[1], p[2], p[3], p[4]>>

\* how often the row r is held by the files of the directory d
Copies(st, d, r) == Cardinality({p \in DOMAIN st : DirOf(p) = d /\ r \in st[p].rows})

\* the rows a pass over fp hands to the directory d, as they are stored
BatchRows(fp, d) ==
    LET tbl == normalize_schema(
                   read_file_by_source(Contents[fs[fp].content], scope.data_source).lf)
        n   == Len(tbl.columns)
    IN  {[i \in 1..n - 2 |-> r[i]] :
            r \in {q \in tbl.rows :
                     d = <<scope.plant_name, scope.machine_no, q[n - 1], q[n]>>}}

Directories ==
    {<<sc.plant_name, sc.machine_no, 2023, m>> : sc \in Scopes, m \in 1..2}

AllRows == UNION {BatchRows(fp, d) : fp \in FileNames, d \in Directories}
               \cup UNION {store[p].rows : p \in DOMAIN store}

\* C5: a write into a partition only adds: the files the partition held are
\* left as they are, and every row is held once more for each time the batch
\* brings it, so the rows after the write are the rows before plus the batch.
C5_StoreWritesOnlyAdd ==
    [][\A fp \in FileNames :
          (Took(fp) /\ outcome' = "Ingested")
          => /\ \A p \in DOMAIN store : p \in DOMAIN store' /\ store'[p] = store[p]
             /\ \A d \in Directories : \A r \in AllRows :
                   Copies(store', d, r) =
                      Copies(store, d, r) + (IF r \in BatchRows(fp, d) THEN 1 ELSE 0)]_vars

\* Channel columns of a stored file: all but the timestamp.
ChannelTypes(f) == {f.dtypes[i] : i \in 2..Len(f.columns)}

\* C9: every numeric measurement channel is stored as Float64 and year and
\* month keep their integer types, so the files of a plant/machine never
\* disagree on the type of a channel, the query raises no type error and the
\* channel comes back as Float64 whichever files were ingested, in any order.
C9_SchemaNormalized ==
    /\ \A p \in DOMAIN store :
          /\ ChannelTypes(store[p]) \subseteq {"Float64"}
          /\ store[p].keys = [year |-> "Int32", month |-> "Int8"]
    /\ \A sc \in Scopes :
          /\ ~ArrowInvalid(store, sc.plant_name, sc.machine_no)
          /\ \A c \in {"P1", "P2"} :
                ResultTypes(store, sc.plant_name, sc.machine_no, c) \subseteq {"Float64"}

\* a plant/machine holds a file whose channel P1 came as Int64 (K1) and a file
\* whose channel P1 came fractional (K2)
C9_Witness ==
    \E p, q \in DOMAIN store :
       /\ p # q /\ p[1] = q[1] /\ p[2] = q[2]
       /\ TypeIn(store[p], "P1") = "Float64" /\ TypeIn(store[q], "P1") = "Float64"
       /\ \E r \in store[p].rows : ~Fractional(r[2])
       /\ \E r \in store[q].rows : Fractional(r[2])
       /\ Len(store[p].columns) = 2 /\ Len(store[q].columns) = 3

(***************************************************************************)
(* Properties of the parameter catalog                                     *)
(***************************************************************************)
\* the pass of this step got as far as calling register_header_to_duckdb
RegisterCalled ==
    \/ outcome' = "Ingested"
    \/ lastError'.at \in {"write", "mark"}
    \/ lastError' = [at |-> "register", kind |-> "ConstraintException"]

\* the parameter ids the header of the file fp lists
HeaderIds(fp) ==
    {h.param_id : h \in Range(read_file_by_source(Contents[fs[fp].content],
                                                  scope.data_source).header_lf)}

\* rows of a catalog table for the parameter id in the scope sc
RowsFor(table, id, sc) ==
    {t \in table : CatalogKey(t) = <<id, sc.plant_name, sc.machine_no, sc.data_source>>}

\* C2: a register call leaves every row the catalog tables already hold as
\* it is, whatever display name the file gives, and for each parameter id of
\* the file that the scope did not hold it adds exactly one row.
C2_CatalogMergeNeverClobbers ==
    [][\A fp \in FileNames :
          (Took(fp) /\ RegisterCalled)
          => /\ param_master \subseteq param_master'
             /\ parameter_id_master \subseteq parameter_id_master'
             /\ \A id \in HeaderIds(fp) :
                   /\ Cardinality(RowsFor(param_master', id, scope)) = 1
                   /\ Cardinality(RowsFor(parameter_id_master', id, scope)) = 1
             /\ \A t \in (param_master' \ param_master)
                         \cup (parameter_id_master' \ parameter_id_master) :
                   /\ t.param_id \in HeaderIds(fp)
                   /\ RowsFor(param_master, t.param_id, scope) = {}]_vars

(***************************************************************************)
(* Two register_header_to_duckdb calls at once (C8).  Each call opens its  *)
(* own connection; its SELECT of the existing ids and each INSERT of its   *)
(* executemany are statements of their own, and the statements of the two  *)
(* calls interleave.  Nothing in the calls locks the catalog, and the      *)
(* INSERT is a plain one.                                                  *)
(***************************************************************************)
Tasks == {"t1", "t2"}

\* the headers of two well-formed exports
RaceHeaders == {read_pi_file(Contents.K1).header_lf, read_pi_file(Contents.K2).header_lf}

\* the catalog before the two calls: empty, or as one ingestion of K1 left it
RaceCatalogs ==
    {[pm |-> {}, pim |-> {}],
     LET r == register_header_to_duckdb(read_pi_file(Contents.K1).header_lf,
                                        {}, {}, DefaultScope, 0)
     IN  [pm |-> r.pm, pim |-> r.pim]}

RaceInit ==
    /\ fs = [f \in FileNames |-> [mtime |-> 1, content |-> InitialContent[f]]]
    /\ clock = 1
    /\ ledger = {}
    /\ \E c \in RaceCatalogs : param_master = c.pm /\ parameter_id_master = c.pim
    /\ store = <<>>
    /\ running = FALSE
    /\ remaining = 0
    /\ force = FALSE
    /\ scope = DefaultScope
    /\ outcome = "none"
    /\ lastError = NoError
    /\ ingested = {}
    /\ tasks \in [Tasks -> {[pc |-> "select_param_master", header_lf |-> h,
                             todo |-> <<>>] : h \in RaceHeaders}]
    /\ query = NoQuery
    /\ reading = NoReading
    /\ scan = NoScan

\* where a call goes when the rows of its executemany are all inserted
AfterInsert(pc) ==
    IF pc = "insert_param_master" THEN "select_id_master" ELSE "done"

\* existing_ids = set(con.execute("SELECT param_id ...")); new_rows = ...
RaceSelect(t) ==
    /\ tasks[t].pc \in {"select_param_master", "select_id_master"}
    /\ LET first == tasks[t].pc = "select_param_master"
           rows  == IF first
                    THEN new_rows(header_df_param_master(tasks[t].header_lf, scope),
                                  existing_ids(param_master, scope))
                    ELSE new_rows(header_df_id_master(tasks[t].header_lf, scope, clock),
                                  existing_ids(parameter_id_master, scope))
           ins   == IF first THEN "insert_param_master" ELSE "insert_id_master"
       IN  tasks' = [tasks EXCEPT ![t].todo = rows,
                                  ![t].pc = IF rows = <<>> THEN AfterInsert(ins) ELSE ins]
    /\ UNCHANGED <<pipeVars, query, reading, scan>>

\* one INSERT of con.executemany(...)
RaceInsert(t) ==
    /\ tasks[t].pc \in {"insert_param_master", "insert_id_master"}
    /\ LET first == tasks[t].pc = "insert_param_master"
           table == IF first THEN param_master ELSE parameter_id_master
           res   == executemany_insert(table, <<Head(tasks[t].todo)>>)
           rest  == Tail(tasks[t].todo)
       IN  /\ IF first
              THEN param_master' = res.table /\ UNCHANGED parameter_id_master
              ELSE parameter_id_master' = res.table /\ UNCHANGED param_master
           /\ tasks' = [tasks EXCEPT
                          ![t].todo = rest,
                          ![t].pc = IF ~res.ok THEN "ConstraintException"
                                    ELSE IF rest = <<>> THEN AfterInsert(tasks[t].pc)
                                    ELSE tasks[t].pc]
    /\ UNCHANGED <<fs, clock, ledger, store, running, remaining, force, scope,
                   outcome, lastError, ingested, query, reading, scan>>

RaceNext == \E t \in Tasks : RaceSelect(t) \/ RaceInsert(t)

SpecRace == RaceInit /\ [][RaceNext]_vars

\* C8: two concurrent register calls that find the same new parameter id
\* both return without a duplicate-key failure, and the catalog ends with
\* exactly one row for each parameter id of their headers.
C8_CatalogRaceAbsorbed ==
    /\ \A t \in Tasks : tasks[t].pc # "ConstraintException"
    /\ (\A t \in Tasks : tasks[t].pc = "done")
          => \A t \in Tasks : \A h \in Range(tasks[t].header_lf) :
                /\ Cardinality(RowsFor(param_master, h.param_id, scope)) = 1
                /\ Cardinality(RowsFor(parameter_id_master, h.param_id, scope)) = 1

(***************************************************************************)
(* Column projection of load_dataset (C10), src/libs/fetch_sensor_data.py  *)
(***************************************************************************)
MaxSelected == 3

\* names a caller may ask for: the timestamp, two channels, an absent one
RequestNames == {"Datetime", "P1", "P2", "Px"}

Requests == UNION {[1..n -> RequestNames] : n \in 0..MaxSelected}

\* lf.collect_schema().names() of a dataset written from the export c: the
\* columns of its files, then the partition fields of part_schema
DatasetColumns(c) ==
    LET lf == read_pi_file(Contents[c]).lf
    IN  SelectSeq(lf.columns, LAMBDA n : n \notin PartitionColumns)
            \o <<"machine_no", "year", "month">>

\* lf.select(cols).collect(): polars refuses a name given twice
select(cols) ==
    IF HasDuplicates(cols)
    THEN [error |-> "DuplicateError", columns |-> <<>>]
    ELSE [error |-> "none", columns |-> cols]

\* the part of load_dataset from "if selected_columns:" on
load_dataset_columns(existing_columns, selected_columns) ==
    IF Len(selected_columns) > 0
    THEN LET selected == <<"Datetime">> \o selected_columns
         IN  select(SelectSeq(selected, LAMBDA c : c \in Range(existing_columns)))
    ELSE [error |-> "none", columns |-> existing_columns]

ProjInit ==
    /\ fs = [f \in FileNames |-> [mtime |-> 1, content |-> InitialContent[f]]]
    /\ clock = 0
    /\ ledger = {}
    /\ param_master = {}
    /\ parameter_id_master = {}
    /\ store = <<>>
    /\ running = FALSE
    /\ remaining = 0
    /\ force = FALSE
    /\ scope = DefaultScope
    /\ outcome = "none"
    /\ lastError = NoError
    /\ ingested = {}
    /\ tasks = NoTasks
    /\ \E c \in {"K1", "K2"}, sel \in Requests :
          query = [NoQuery EXCEPT !.existing = DatasetColumns(c),
                                  !.selected_columns = sel]
    /\ reading = NoReading
    /\ scan = NoScan

\* load_dataset(root, ..., selected_columns = query.selected_columns)
LoadDataset ==
    /\ ~query.done
    /\ LET r == load_dataset_columns(query.existing, query.selected_columns)
       IN  query' = [query EXCEPT !.done = TRUE, !.error = r.error,
                                  !.columns = r.columns]
    /\ UNCHANGED <<pipeVars, tasks, reading, scan>>

ProjNext == LoadDataset

SpecProj == ProjInit /\ [][ProjNext]_vars

\* C10: for every list of requested columns the call returns, without an
\* exception, the timestamp column and the requested columns the dataset
\* has, each once.
C10_ColumnProjection ==
    (query.done /\ Len(query.selected_columns) > 0)
    => /\ query.error = "none"
       /\ Range(query.columns) =
             {"Datetime"} \cup (Range(query.selected_columns) \cap Range(query.existing))
       /\ ~HasDuplicates(query.columns)

(***************************************************************************)
(* Range queries (C11): load_dataset of src/libs/fetch_sensor_data.py and  *)
(* load_sensor_data of src/fetch_sensor_data.py, over a dataset the writer *)
(* has written.                                                            *)
(***************************************************************************)
\* timestamps of the stored rows; they lie on both sides of a year boundary
Stamps == {<<2022, 12, 31>>, <<2023, 1, 15>>, <<2023, 2, 1>>, <<2023, 3, 1>>}

\* values of start and end
RangeBounds == {<<2022, 12, 1>>, <<2023, 1, 1>>, <<2023, 2, 1>>, <<2023, 3, 31>>}

\* a <= b on datetimes
Le(a, b) ==
    \/ a[1] < b[1]
    \/ a[1] = b[1] /\ a[2] < b[2]
    \/ a[1] = b[1] /\ a[2] = b[2] /\ a[3] <= b[3]

\* an export with the channel P1 and one data line for each of the timestamps
ExportOf(stamps) ==
    [lines  |-> Contents.K1.lines,
     dtypes |-> Contents.K1.dtypes,
     data   |-> {<<t, 1>> : t \in stamps}]

\* the store after the pipeline wrote one export for each scope
StoredDataset(stamps) ==
    LET Write(st, sc) ==
            write_parquet_file(read_pi_file(ExportOf(stamps[sc.machine_no])).lf, st, sc).store
        first  == [plant_name |-> "plant1", machine_no |-> "machine1", data_source |-> "pi"]
        second == [plant_name |-> "plant1", machine_no |-> "machine2", data_source |-> "pi"]
    IN  Write(Write(<<>>, first), second)

\* ds.partitioning(schema, flavor = ...): pyarrow knows the default flavor
\* (None, the directory scheme), "hive" and "filename"; any other value
\* raises ValueError("Unsupported flavor")
partitioning(flavor) ==
    IF flavor \in {"None", "hive", "filename"}
    THEN [ok |-> TRUE, error |-> "none"]
    ELSE [ok |-> FALSE, error |-> "ValueError"]

\* the year/month part of the predicate load_dataset builds from start
start_partition(year, month, sdt) ==
    (year > sdt[1] - 1) /\ ((year > sdt[1]) \/ (year = sdt[1] /\ month >= sdt[2]))

\* the year/month part of the predicate load_dataset builds from end
end_partition(year, month, edt) ==
    (year < edt[1] + 1) /\ ((year < edt[1]) \/ (year = edt[1] /\ month <= edt[2]))

\* the rows of the files ps, each with the path of its file
RowsOf(st, ps) == UNION {{<<q, w>> : w \in st[q].rows} : q \in ps}

\* a row of a result: the row of the file with the partition fields that the
\* path of the file gives
ResultRow(x) == [plant_name |-> x[1][1], machine_no |-> x[1][2], row |-> x[2]]

\* load_dataset(root, plant_name, machine_no, start, end): the dataset is
\* opened at root / plant_name with the default (directory) partitioning;
\* an argument that is None or empty adds no condition ("" stands for both).
load_dataset(st, plant_name, machine_no, start, end) ==
    LET part == partitioning("None")
        Cond(p, r) ==
            /\ (machine_no # "") => p[2] = machine_no
            /\ (start # "") => start_partition(p[3], p[4], start) /\ Le(start, r[1])
            /\ (end # "") => end_partition(p[3], p[4], end) /\ Le(r[1], end)
    IN  IF ~part.ok
        THEN [error |-> part.error, rows |-> {}]
        ELSE [error |-> "none",
              rows  |-> {ResultRow(x) :
                           x \in {y \in RowsOf(st, {p \in DOMAIN st : p[1] = plant_name}) :
                                    Cond(y[1], y[2])}}]

\* load_sensor_data(root, start, end, plant, machine): the partitioning is
\* asked for with flavor = "directory" before the dataset is opened
load_sensor_data(st, start, end, plant, machine) ==
    LET part == partitioning("directory")
        Cond(p, r) ==
            /\ Le(start, r[1]) /\ Le(r[1], end)
            /\ (plant # "") => p[1] = plant
            /\ (machine # "") => p[2] = machine
    IN  IF ~part.ok
        THEN [error |-> part.error, rows |-> {}]
        ELSE IF \E p \in DOMAIN st : ArrowInvalid(st, p[1], p[2])
        THEN [error |-> "ArrowInvalid", rows |-> {}]
        ELSE [error |-> "none",
              rows  |-> {ResultRow(x) :
                           x \in {y \in RowsOf(st, DOMAIN st) : Cond(y[1], y[2])}}]

\* the two query functions and the filters a caller gives them; load_dataset
\* takes the plant as a directory of the root
Calls ==
    {[fn |-> "load_dataset", plant |-> "plant1", machine |-> m] :
        m \in {"", "machine1", "machine2"}}
    \cup {[fn |-> "load_sensor_data", plant |-> pl, machine |-> m] :
        pl \in {"", "plant1"}, m \in {"", "machine1", "machine2"}}

ScanInit ==
    /\ fs = [f \in FileNames |-> [mtime |-> 1, content |-> InitialContent[f]]]
    /\ clock = 0
    /\ ledger = {}
    /\ param_master = {}
    /\ parameter_id_master = {}
    /\ \E s1 \in SUBSET Stamps \ {{}}, s2 \in SUBSET {<<2022, 12, 31>>, <<2023, 2, 1>>} :
          store = StoredDataset([machine1 |-> s1, machine2 |-> s2])
    /\ running = FALSE
    /\ remaining = 0
    /\ force = FALSE
    /\ scope = DefaultScope
    /\ outcome = "none"
    /\ lastError = NoError
    /\ ingested = {}
    /\ tasks = NoTasks
    /\ query = NoQuery
    /\ reading = NoReading
    /\ \E c \in Calls, start \in RangeBounds, end \in RangeBounds :
          /\ Le(start, end)
          /\ scan = [fn |-> c.fn, plant |-> c.plant, machine |-> c.machine,
                     start |-> start, end |-> end,
                     done |-> FALSE, error |-> "none", rows |-> {}]

\* the query is made and returns, or raises
RunQuery ==
    /\ ~scan.done
    /\ LET r == IF scan.fn = "load_dataset"
                THEN load_dataset(store, scan.plant, scan.machine, scan.start, scan.end)
                ELSE load_sensor_data(store, scan.start, scan.end, scan.plant,
                                      scan.machine)
       IN  scan' = [scan EXCEPT !.done = TRUE, !.error = r.error, !.rows = r.rows]
    /\ UNCHANGED <<pipeVars, tasks, query, reading>>

ScanNext == RunQuery

SpecScan == ScanInit /\ [][ScanNext]_vars

\* the stored rows between start and end, both included, of the plant and
\* the machine the caller names
InRange ==
    {ResultRow(y) :
        y \in {x \in RowsOf(store, DOMAIN store) :
                        /\ Le(scan.start, x[2][1]) /\ Le(x[2][1], scan.end)
                        /\ (scan.plant # "") => x[1][1] = scan.plant
                        /\ (scan.machine # "") => x[1][2] = scan.machine}}

\* C11: for every stored dataset and every start <= end, a range query
\* returns, without an error, exactly the stored rows whose timestamp lies
\* between start and end, both included, and that match the plant and
\* machine filters; no row of the range is lost to the year/month predicate.
C11_InclusiveTimeRange ==
    scan.done => scan.error = "none" /\ scan.rows = InRange

(***************************************************************************)
(* The header block of a PI export (C12): read_pi_file over files whose    *)
(* three header lines have any number of cells.                            *)
(***************************************************************************)
\* most cells a header line has after its first cell
MaxCells == 2

\* the sequences of at most MaxCells cells taken from the set cells
CellsOf(cells) == UNION {[1..n -> cells] : n \in 0..MaxCells}

\* a file with the header lines ids, names and units and one data line whose
\* cells are those the first header line names
ExportWith(ids, names, units) ==
    [lines  |-> <<ids, names, units>>,
     dtypes |-> [i \in 1..Len(ids) |-> IF i = 1 THEN "Datetime" ELSE "Int64"],
     data   |-> {[i \in 1..Len(ids) |-> IF i = 1 THEN <<2023, 1, 15>> ELSE 1]}]

ReadInit ==
    /\ fs = [f \in FileNames |-> [mtime |-> 1, content |-> InitialContent[f]]]
    /\ clock = 0
    /\ ledger = {}
    /\ param_master = {}
    /\ parameter_id_master = {}
    /\ store = <<>>
    /\ running = FALSE
    /\ remaining = 0
    /\ force = FALSE
    /\ scope = DefaultScope
    /\ outcome = "none"
    /\ lastError = NoError
    /\ ingested = {}
    /\ tasks = NoTasks
    /\ query = NoQuery
    /\ \E ids \in CellsOf({"P1", "P2"}), names \in CellsOf({"n1", "n2"}),
          units \in CellsOf({"u"}) :
          reading = [NoReading EXCEPT
                        !.lines = ExportWith(<<"ts">> \o ids, <<"name">> \o names,
                                             <<"unit">> \o units).lines]
    /\ scan = NoScan

\* read_pi_file(file_path) on the file of reading.lines
ReadFile ==
    /\ ~reading.done
    /\ LET r == read_pi_file(ExportWith(reading.lines[1], reading.lines[2],
                                        reading.lines[3]))
       IN  reading' = [reading EXCEPT !.done = TRUE, !.error = r.error,
                                      !.header_lf = r.header_lf]
    /\ UNCHANGED <<pipeVars, tasks, query, scan>>

ReadNext == ReadFile

SpecRead == ReadInit /\ [][ReadNext]_vars

\* C12: when the three header lines of a file differ in their number of
\* cells, read_pi_file fails with a malformed-header error and gives no
\* metadata record; when they agree, it gives one (param_id, param_name,
\* unit) record for each cell after the first, taken from the three lines
\* cell by cell.
C12_HeaderLengthCheck ==
    reading.done =>
       LET ids   == reading.lines[1]
           names == reading.lines[2]
           units == reading.lines[3]
       IN  IF Len(ids) = Len(names) /\ Len(names) = Len(units)
           THEN /\ reading.error = "none"
                /\ reading.header_lf =
                      [i \in 1..Len(ids) - 1 |->
                          [param_id |-> ids[i + 1], param_name |-> names[i + 1],
                           unit |-> units[i + 1]]]
           ELSE /\ reading.error = "MalformedHeaderError"
                /\ reading.header_lf = <<>>

(***************************************************************************)
(* register_header_to_duckdb called again and again, one call after the    *)
(* other (C13), with any list of parameter metadata.                       *)
(***************************************************************************)
\* most records a header has, and most calls made
MaxHeader == 2
MaxCalls == 3

\* the metadata lists: for each list of parameter ids the records a header
\* gives for them; an id may be listed more than once
Headers ==
    {[i \in 1..Len(ids) |-> [param_id |-> ids[i], param_name |-> "n", unit |-> "u"]] :
        ids \in UNION {[1..n -> {"P1", "P2"}] : n \in 0..MaxHeader}}

\* register_header_to_duckdb(header_lf, db_path, plant, machine, data_source)
\* on the catalog as the calls before left it
Register(h, sc) ==
    /\ clock < MaxCalls
    /\ LET r == register_header_to_duckdb(h, param_master, parameter_id_master,
                                          sc, clock + 1)
       IN  /\ param_master' = r.pm
           /\ parameter_id_master' = r.pim
           /\ lastError' = IF r.ok THEN NoError
                           ELSE [at |-> "register", kind |-> "ConstraintException"]
    /\ clock' = clock + 1
    /\ UNCHANGED <<fs, ledger, store, running, remaining, force, scope, outcome,
                   ingested, otherVars>>

RegisterNext == \E h \in Headers, sc \in Scopes : Register(h, sc)

SpecRegister == Init /\ [][RegisterNext]_vars

\* C13: in any sequence of register calls made one after the other, with any
\* metadata list, also one that names a parameter id twice, and on a scope
\* that holds some of the ids already, no INSERT meets a row of its primary
\* key: no call ends with a constraint violation.
C13_NoDuplicateKeyViolation ==
    lastError # [at |-> "register", kind |-> "ConstraintException"]

====
